---- MODULE Spec2Model ----
EXTENDS Integers, Sequences, FiniteSets, TLC

(***************************************************************************)
(* longclaw/shipping/models.py: shipping quotes of a basket.               *)
(*                                                                         *)
(* The module is read with Python 2 semantics (the `except A, B:` clause   *)
(* of create_shipping_quotes only exists there: it catches A and binds the *)
(* exception to the name B).  The database runs in Django's default        *)
(* autocommit mode: every ORM write is committed when it returns, so an    *)
(* exception raised later in a method does not undo earlier writes.        *)
(* Time is counted in whole days, money in cents.  The column updated_at   *)
(* (auto_now) is read by no method and is left out of the rows.            *)
(***************************************************************************)

VARIABLES
    store,       \* the rows of the DefaultShippingQuote table
    countries,   \* ShippingRate.countries, per ShippingRate.name
    pricer,      \* what get_shipping_cost answers, per ShippingRate.name
    now,         \* timezone.now()
    edits,       \* number of changes made to the reference data so far
    last,        \* the most recent call and what it returned or raised
    procs        \* the passes that request workers are in the middle of

vars == <<store, countries, pricer, now, edits, last, procs>>

----------------------------------------------------------------------------
(* Bounds of the model *)

MaxTime == 60
MaxEdits == 1

(* Values *)

ExpiryDays == 30
TickDays == ExpiryDays

None == "None"
NoSite == 0
NoKey == <<>>
(* expires_at is nullable (line 109); NULL is written as a time before all *)
(* times                                                                   *)
NoExpiry == -1

Baskets == {"b1", "b2"}
CountryPks == {"US", "GB"}
SitePks == {1}
Names == {"standard", "express"}
Amounts == {500, 1500}

Workers == {"w1", "w2"}

Destinations == [country : CountryPks \cup {None}]
Sites == SitePks \cup {NoSite}

----------------------------------------------------------------------------
(* get_shipping_cost (longclaw.shipping.utils): returns a dict with the    *)
(* keys rate, carrier and description, or raises InvalidShippingRate or    *)
(* InvalidShippingCountry.                                                 *)

Priced(rate) ==
    [tag |-> "ok", rate |-> rate, carrier |-> "UPS", description |-> "Delivery"]

Failed(exc) ==
    [tag |-> exc, rate |-> 0, carrier |-> "", description |-> ""]

PricerOutcomes ==
    {Priced(a) : a \in Amounts}
        \cup {Failed("InvalidShippingRate"), Failed("InvalidShippingCountry")}

(* The answer is held per rate name; it is the same for every site and     *)
(* for every country the rate lists.                                       *)
get_shipping_cost(site, country_pk, name) == pricer[name]

----------------------------------------------------------------------------
(* DefaultShippingQuote.generate_key *)

json_string(s) == "\"" \o s \o "\""

json_int(n) == ToString(n)

SortedKeys == <<"basket_id", "destination_country", "site">>

RECURSIVE json_items(_, _, _)
json_items(data, keys, first) ==
    IF keys = <<>> THEN ""
    ELSE IF Head(keys) \in DOMAIN data
         THEN (IF first THEN "" ELSE ",") \o "\n    "
                  \o json_string(Head(keys)) \o ": " \o data[Head(keys)]
                  \o json_items(data, Tail(keys), FALSE)
         ELSE json_items(data, Tail(keys), first)

json_dumps(data) == "{" \o json_items(data, SortedKeys, TRUE) \o "\n}"

sha1_hexdigest(databytes) == <<"sha1", databytes>>

(* Variant: the country is left out of the hashed data. *)
generate_key_without_country(destination, basket_id, site) ==
    LET data == [site |-> IF site # NoSite THEN json_int(site) ELSE "null"]
    IN sha1_hexdigest(json_dumps(data))

(* Variant: the basket is part of the hashed data. *)
generate_key_with_basket(destination, basket_id, site) ==
    LET data == [basket_id |-> json_string(basket_id),
                 destination_country |-> json_string(destination.country),
                 site |-> IF site # NoSite THEN json_int(site) ELSE "null"]
    IN sha1_hexdigest(json_dumps(data))

generate_key(destination, basket_id, site) ==
    LET data == [destination_country |-> json_string(destination.country),
                 site |-> IF site # NoSite THEN json_int(site) ELSE "null"]
    IN sha1_hexdigest(json_dumps(data))

----------------------------------------------------------------------------
(* AbstractShippingQuote: the table and its unique_together constraint.    *)
(* A row is a record with the fields of the model.  is_selected is a       *)
(* NullBooleanField: None, "True" or "False".  SQL compares NULL as        *)
(* distinct from NULL, so rows whose is_selected is None never collide.    *)

Row(id, lookups, details, t) ==
    [id |-> id,
     basket_id |-> lookups.basket_id,
     expires_at |-> t + ExpiryDays,
     amount |-> details.amount,
     carrier |-> details.carrier,
     service |-> lookups.service,
     description |-> details.description,
     key |-> lookups.key,
     is_selected |-> None,
     is_valid |-> details.is_valid]

Details(r) ==
    [amount |-> r.amount, carrier |-> r.carrier, description |-> r.description,
     is_valid |-> r.is_valid]

unique_together(rows) ==
    \A r1 \in rows : \A r2 \in rows :
        (r1.id # r2.id /\ r1.is_selected # None)
            => ~(r1.basket_id = r2.basket_id
                 /\ r1.is_selected = r2.is_selected
                 /\ r1.key = r2.key)

uuid4(rows) ==
    CHOOSE i \in 1..(Cardinality(rows) + 1) : \A r \in rows : r.id # i

(* Model.save() of an existing row: UPDATE by primary key; the constraint  *)
(* rejects the write with IntegrityError.  expires_at keeps its value: the *)
(* field default applies when a row is created only.                       *)
save(rows, instance) ==
    LET rows2 == {r \in rows : r.id # instance.id} \cup {instance}
    IN IF unique_together(rows2)
       THEN [status |-> "ok", rows |-> rows2, instance |-> instance]
       ELSE [status |-> "IntegrityError", rows |-> rows, instance |-> instance]

(* Variant: the update branch writes is_selected = False with the defaults. *)
update_or_create_deselecting(rows, defaults, kwargs, t) ==
    LET matches == {r \in rows : /\ r.amount = kwargs.amount
                                 /\ r.carrier = kwargs.carrier
                                 /\ r.description = kwargs.description
                                 /\ r.is_valid = kwargs.is_valid}
    IN IF Cardinality(matches) > 1
       THEN [status |-> "MultipleObjectsReturned", rows |-> rows,
             result |-> [items |-> <<>>]]
       ELSE IF matches # {}
       THEN LET obj == CHOOSE r \in matches : TRUE
                upd == [obj EXCEPT !.basket_id = defaults.basket_id,
                                   !.service = defaults.service,
                                   !.key = defaults.key,
                                   !.is_selected = "False"]
                s == save(rows, upd)
            IN [status |-> s.status, rows |-> s.rows,
                result |-> [items |-> <<s.instance, FALSE>>]]
       ELSE LET obj == Row(uuid4(rows), defaults, kwargs, t)
                rows2 == rows \cup {obj}
            IN IF unique_together(rows2)
               THEN [status |-> "ok", rows |-> rows2,
                     result |-> [items |-> <<obj, TRUE>>]]
               ELSE [status |-> "IntegrityError", rows |-> rows,
                     result |-> [items |-> <<>>]]

(* QuerySet.update_or_create(defaults, kwargs): get by the kwargs; when one *)
(* row matches, set the defaults on it and save; when none matches, create *)
(* a row from kwargs and defaults.  Returns the tuple (object, created).   *)
(* The call at line 196 passes the details as kwargs and the lookups as    *)
(* defaults.                                                               *)
update_or_create(rows, defaults, kwargs, t) ==
    LET matches == {r \in rows : /\ r.amount = kwargs.amount
                                 /\ r.carrier = kwargs.carrier
                                 /\ r.description = kwargs.description
                                 /\ r.is_valid = kwargs.is_valid}
    IN IF Cardinality(matches) > 1
       THEN [status |-> "MultipleObjectsReturned", rows |-> rows,
             result |-> [items |-> <<>>]]
       ELSE IF matches # {}
       THEN LET obj == CHOOSE r \in matches : TRUE
                upd == [obj EXCEPT !.basket_id = defaults.basket_id,
                                   !.service = defaults.service,
                                   !.key = defaults.key]
                s == save(rows, upd)
            IN [status |-> s.status, rows |-> s.rows,
                result |-> [items |-> <<s.instance, FALSE>>]]
       ELSE LET obj == Row(uuid4(rows), defaults, kwargs, t)
                rows2 == rows \cup {obj}
            IN IF unique_together(rows2)
               THEN [status |-> "ok", rows |-> rows2,
                     result |-> [items |-> <<obj, TRUE>>]]
               ELSE [status |-> "IntegrityError", rows |-> rows,
                     result |-> [items |-> <<>>]]

----------------------------------------------------------------------------
(* DefaultShippingQuote.create_shipping_quotes *)

(* A Python tuple is a record with the one field items; a model instance   *)
(* is a row record.  Assigning an attribute of a tuple raises              *)
(* AttributeError.                                                         *)
IsTuple(obj) == "items" \in DOMAIN obj

(* lines 162-164: the names of the rates that list the country, in the     *)
(* order the database returns them (the query has no ORDER BY)             *)
shipping_rate_names(country_pk) ==
    LET S == {n \in Names : country_pk \in countries[n]}
    IN {q \in [1..Cardinality(S) -> S] : \A i, j \in DOMAIN q : q[i] = q[j] => i = j}

(* lines 176-188: the try block.  `except InvalidShippingRate,             *)
(* InvalidShippingCountry:` catches InvalidShippingRate only.              *)
try_get_shipping_cost(site, country_pk, name) ==
    LET out == get_shipping_cost(site, country_pk, name)
    IN IF out.tag = "ok"
       THEN [status |-> "ok", valid |-> TRUE,
             shipping_rate |-> [rate |-> out.rate, carrier |-> out.carrier,
                                description |-> out.description]]
       ELSE IF out.tag = "InvalidShippingRate"
       THEN [status |-> "ok", valid |-> FALSE,
             shipping_rate |-> [amount |-> 0, carrier |-> "INVALID",
                                description |-> "INVALID"]]
       ELSE [status |-> out.tag, valid |-> TRUE, shipping_rate |-> [x \in {} |-> 0]]

(* lines 169-197: the loop over the names *)
RECURSIVE quote_loop(_, _, _, _, _, _, _, _)
quote_loop(names, rows, quotes, country_pk, basket_id, site, key, t) ==
    IF names = <<>>
    THEN [status |-> "ok", rows |-> rows, quotes |-> quotes]
    ELSE LET name == Head(names)
             lookups == [basket_id |-> basket_id, service |-> name, key |-> key]
             got == try_get_shipping_cost(site, country_pk, name)
         IN IF got.status # "ok"
            THEN [status |-> got.status, rows |-> rows, quotes |-> quotes]
            ELSE IF "rate" \notin DOMAIN got.shipping_rate
            THEN [status |-> "KeyError", rows |-> rows, quotes |-> quotes]
            ELSE LET details == [amount |-> got.shipping_rate["rate"],
                                 carrier |-> got.shipping_rate["carrier"],
                                 description |-> got.shipping_rate["description"],
                                 is_valid |-> got.valid]
                     u == update_or_create(rows, lookups, details, t)
                 IN IF u.status # "ok"
                    THEN [status |-> u.status, rows |-> rows, quotes |-> quotes]
                    ELSE quote_loop(Tail(names), u.rows, Append(quotes, u.result),
                                    country_pk, basket_id, site, key, t)

(* Variant: the instance is taken out of the tuple, so the quote of a      *)
(* one-quote pass is marked and saved.                                     *)
auto_select_unpacked(rows, quotes) ==
    IF Len(quotes) = 1
    THEN LET instance == quotes[1].items[1]
             s == save(rows, [instance EXCEPT !.is_selected = "True"])
         IN [status |-> s.status, rows |-> s.rows,
             quotes |-> <<[items |-> <<s.instance, quotes[1].items[2]>>]>>]
    ELSE [status |-> "ok", rows |-> rows, quotes |-> quotes]

(* Variant: as above, written to a table without the unique_together       *)
(* constraint.                                                             *)
auto_select_unconstrained(rows, quotes) ==
    IF Len(quotes) = 1
    THEN LET instance == [quotes[1].items[1] EXCEPT !.is_selected = "True"]
         IN [status |-> "ok",
             rows |-> {r \in rows : r.id # instance.id} \cup {instance},
             quotes |-> <<[items |-> <<instance, quotes[1].items[2]>>]>>]
    ELSE [status |-> "ok", rows |-> rows, quotes |-> quotes]

(* lines 199-202: `instance = quotes[0]` is the tuple update_or_create     *)
(* returned, so `instance.is_selected = True` raises AttributeError.       *)
auto_select(rows, quotes) ==
    IF Len(quotes) = 1
    THEN LET instance == quotes[1]
         IN IF IsTuple(instance)
            THEN [status |-> "AttributeError", rows |-> rows, quotes |-> quotes]
            ELSE LET s == save(rows, [instance EXCEPT !.is_selected = "True"])
                 IN [status |-> s.status, rows |-> s.rows, quotes |-> <<s.instance>>]
    ELSE [status |-> "ok", rows |-> rows, quotes |-> quotes]

(* Variant: the test at line 199 is `len(quotes) <= 1`, so quotes[0] is    *)
(* read from an empty list.                                                *)
create_shipping_quotes_at_most_one(rows, destination, basket_id, site, names, t) ==
    LET key == generate_key(destination, basket_id, site)
        l == quote_loop(names, rows, <<>>, destination.country, basket_id,
                        site, key, t)
    IN IF l.status # "ok"
       THEN [status |-> l.status, rows |-> l.rows, quotes |-> <<>>, key |-> key]
       ELSE IF l.quotes = <<>>
       THEN [status |-> "IndexError", rows |-> l.rows, quotes |-> <<>>, key |-> key]
       ELSE LET a == auto_select(l.rows, l.quotes)
            IN IF a.status # "ok"
               THEN [status |-> a.status, rows |-> a.rows, quotes |-> <<>>,
                     key |-> key]
               ELSE [status |-> "ok", rows |-> a.rows, quotes |-> a.quotes,
                     key |-> key]

(* The whole method, for the order `names` in which the query at lines     *)
(* 162-164 yields the rate names.                                          *)
create_shipping_quotes(rows, destination, basket_id, site, names, t) ==
    LET key == generate_key(destination, basket_id, site)
        l == quote_loop(names, rows, <<>>, destination.country, basket_id,
                        site, key, t)
    IN IF l.status # "ok"
       THEN [status |-> l.status, rows |-> l.rows, quotes |-> <<>>, key |-> key]
       ELSE LET a == auto_select(l.rows, l.quotes)
            IN IF a.status # "ok"
               THEN [status |-> a.status, rows |-> a.rows, quotes |-> <<>>,
                     key |-> key]
               ELSE [status |-> "ok", rows |-> a.rows, quotes |-> a.quotes,
                     key |-> key]

----------------------------------------------------------------------------
(* Variant: a quote can still be booked at the instant it expires. *)
can_book_at_expiry(self, destination, basket_id, site, t) ==
    IF ~self.is_valid THEN [status |-> "ok", result |-> FALSE]
    ELSE IF self.expires_at = NoExpiry
    THEN [status |-> "TypeError", result |-> FALSE]
    ELSE IF ~(t <= self.expires_at) THEN [status |-> "ok", result |-> FALSE]
    ELSE IF destination.country = None
    THEN [status |-> "AttributeError", result |-> FALSE]
    ELSE [status |-> "ok",
          result |-> (self.key = generate_key(destination, basket_id, site))]

(* AbstractShippingQuote.can_book: `and` evaluates left to right and stops *)
(* at the first false operand, so generate_key runs only for a valid,      *)
(* unexpired quote; there destination.country.pk raises AttributeError     *)
(* when the address has no country.  With expires_at NULL the comparison   *)
(* of a datetime with None raises TypeError.                               *)
can_book(self, destination, basket_id, site, t) ==
    IF ~self.is_valid THEN [status |-> "ok", result |-> FALSE]
    ELSE IF self.expires_at = NoExpiry
    THEN [status |-> "TypeError", result |-> FALSE]
    ELSE IF ~(t < self.expires_at) THEN [status |-> "ok", result |-> FALSE]
    ELSE IF destination.country = None
    THEN [status |-> "AttributeError", result |-> FALSE]
    ELSE [status |-> "ok",
          result |-> (self.key = generate_key(destination, basket_id, site))]

----------------------------------------------------------------------------
(* The state machine *)

Init ==
    /\ store = {}
    /\ countries = [n \in Names |-> IF n = "standard" THEN {"US", "GB"} ELSE {"US"}]
    /\ pricer = [n \in Names |-> IF n = "standard" THEN Priced(500) ELSE Priced(1500)]
    /\ now = 0
    /\ edits = 0
    /\ last = [op |-> "init"]
    /\ procs = [w \in Workers |-> [pc |-> "idle"]]

(* Variant: an address without a country is looked up like a country that *)
(* no rate lists, and the call returns the empty list.                     *)
CreateShippingQuotesNullCountry(destination, basket_id, site) ==
    /\ UNCHANGED <<procs, countries, pricer, now, edits>>
    /\ IF destination.country = None
       THEN /\ store' = store
            /\ last' = [op |-> "create_shipping_quotes", destination |-> destination,
                        basket_id |-> basket_id, site |-> site, names |-> <<>>,
                        status |-> "ok", quotes |-> <<>>, key |-> NoKey]
       ELSE \E names \in shipping_rate_names(destination.country) :
                LET r == create_shipping_quotes(store, destination, basket_id,
                                                site, names, now)
                IN /\ store' = r.rows
                   /\ last' = [op |-> "create_shipping_quotes",
                               destination |-> destination,
                               basket_id |-> basket_id, site |-> site,
                               names |-> names, status |-> r.status,
                               quotes |-> r.quotes, key |-> r.key]

(* create_shipping_quotes(destination, basket_id, site).  With an address  *)
(* that has no country, destination.country.pk at line 163 raises          *)
(* AttributeError before anything else is done.                            *)
CreateShippingQuotes(destination, basket_id, site) ==
    /\ UNCHANGED <<procs, countries, pricer, now, edits>>
    /\ IF destination.country = None
       THEN /\ store' = store
            /\ last' = [op |-> "create_shipping_quotes", destination |-> destination,
                        basket_id |-> basket_id, site |-> site, names |-> <<>>,
                        status |-> "AttributeError", quotes |-> <<>>, key |-> NoKey]
       ELSE \E names \in shipping_rate_names(destination.country) :
                LET r == create_shipping_quotes(store, destination, basket_id,
                                                site, names, now)
                IN /\ store' = r.rows
                   /\ last' = [op |-> "create_shipping_quotes",
                               destination |-> destination,
                               basket_id |-> basket_id, site |-> site,
                               names |-> names, status |-> r.status,
                               quotes |-> r.quotes, key |-> r.key]

(* create_shipping_quotes when the database fails at the k-th call of      *)
(* update_or_create: the k-1 upserts before it are committed, the          *)
(* exception (OperationalError) reaches the caller.                        *)
CreateShippingQuotesStoreFailure(destination, basket_id, site) ==
    /\ destination.country # None
    /\ UNCHANGED <<procs, countries, pricer, now, edits>>
    /\ \E names \in shipping_rate_names(destination.country) :
           \E k \in 1..Len(names) :
               LET key == generate_key(destination, basket_id, site)
                   l == quote_loop(SubSeq(names, 1, k - 1), store, <<>>,
                                   destination.country, basket_id, site, key, now)
                   got == try_get_shipping_cost(site, destination.country, names[k])
                   status == IF l.status # "ok" THEN l.status
                             ELSE IF got.status # "ok" THEN got.status
                             ELSE IF "rate" \notin DOMAIN got.shipping_rate
                             THEN "KeyError"
                             ELSE "OperationalError"
               IN /\ store' = l.rows
                  /\ last' = [op |-> "create_shipping_quotes",
                              destination |-> destination,
                              basket_id |-> basket_id, site |-> site,
                              names |-> names, status |-> status,
                              quotes |-> <<>>, key |-> key,
                              upserts |-> Len(l.quotes), before |-> store]

(* select_shipping_quote is not overridden by DefaultShippingQuote: the    *)
(* method of the abstract class raises NotImplementedError.                *)
SelectShippingQuote(self, destination, quote_id, site) ==
    /\ UNCHANGED <<procs, store, countries, pricer, now, edits>>
    /\ last' = [op |-> "select_shipping_quote", basket_id |-> self.basket_id,
                key |-> self.key, quote_id |-> quote_id,
                status |-> "NotImplementedError"]

(* remove_expired_shipping_quotes is not overridden either. *)
RemoveExpiredShippingQuotes(self) ==
    /\ UNCHANGED <<procs, store, countries, pricer, now, edits>>
    /\ last' = [op |-> "remove_expired_shipping_quotes", at |-> now,
                status |-> "NotImplementedError"]

CanBook(self, destination, site) ==
    LET r == can_book(self, destination, self.basket_id, site, now)
    IN /\ UNCHANGED <<procs, store, countries, pricer, now, edits>>
       /\ last' = [op |-> "can_book", quote |-> self, destination |-> destination,
                   basket_id |-> self.basket_id, site |-> site, at |-> now,
                   status |-> r.status, result |-> r.result]

GenerateKey(destination, basket_id, site) ==
    /\ UNCHANGED <<procs, store, countries, pricer, now, edits>>
    /\ last' = IF destination.country = None
               THEN [op |-> "generate_key", destination |-> destination,
                     basket_id |-> basket_id, site |-> site,
                     status |-> "AttributeError", key |-> NoKey]
               ELSE [op |-> "generate_key", destination |-> destination,
                     basket_id |-> basket_id, site |-> site, status |-> "ok",
                     key |-> generate_key(destination, basket_id, site)]

(* The clock advances. *)
Tick ==
    /\ now + TickDays <= MaxTime
    /\ now' = now + TickDays
    /\ last' = [op |-> "tick"]
    /\ UNCHANGED <<procs, store, countries, pricer, edits>>

(* The reference data changes: the pricer's answer for a rate, or the      *)
(* countries of a ShippingRate.                                            *)
SetRate(name, outcome) ==
    /\ edits < MaxEdits
    /\ pricer[name] # outcome
    /\ pricer' = [pricer EXCEPT ![name] = outcome]
    /\ edits' = edits + 1
    /\ last' = [op |-> "edit"]
    /\ UNCHANGED <<procs, store, countries, now>>

SetCountries(name, cs) ==
    /\ edits < MaxEdits
    /\ countries[name] # cs
    /\ countries' = [countries EXCEPT ![name] = cs]
    /\ edits' = edits + 1
    /\ last' = [op |-> "edit"]
    /\ UNCHANGED <<procs, store, pricer, now>>

Reconcile ==
    \E d \in Destinations, b \in Baskets, s \in SitePks : CreateShippingQuotes(d, b, s)

Select ==
    \E q \in store, s \in SitePks :
        \E i \in {r.id : r \in store} :
            SelectShippingQuote(q, [country |-> None], i, s)

Purge ==
    \E q \in store : RemoveExpiredShippingQuotes(q)

Book ==
    \E q \in store, d \in Destinations, s \in Sites : CanBook(q, d, s)

Key ==
    \E d \in Destinations, b \in Baskets, s \in Sites : GenerateKey(d, b, s)

Edit ==
    \/ \E n \in Names, o \in PricerOutcomes : SetRate(n, o)
    \/ \E n \in Names, cs \in SUBSET CountryPks : SetCountries(n, cs)

(* Quotes are created, selected and aged while the reference data changes. *)
Next ==
    \/ Reconcile
    \/ Select
    \/ Purge
    \/ Tick
    \/ Edit

Spec == Init /\ [][Next]_vars

(* Quotes are created, aged and asked whether they can be booked. *)
NextBook ==
    \/ Reconcile
    \/ Tick
    \/ Book

SpecBook == Init /\ [][NextBook]_vars

(* can_book is a method of the abstract class: it is applied to one quote  *)
(* instance, valid or not, of any basket, service and key, while time      *)
(* passes.                                                                 *)
QuoteInstances ==
    {Row(1, [basket_id |-> b, service |-> n,
             key |-> generate_key([country |-> c], b, s)],
         [amount |-> a, carrier |-> "UPS", description |-> "Delivery",
          is_valid |-> v], 0) :
        b \in Baskets, n \in Names, c \in CountryPks, s \in Sites,
        a \in Amounts, v \in BOOLEAN}

InitCanBook ==
    /\ store \in {{q} : q \in QuoteInstances}
    /\ countries = [n \in Names |-> IF n = "standard" THEN {"US", "GB"} ELSE {"US"}]
    /\ pricer = [n \in Names |-> IF n = "standard" THEN Priced(500) ELSE Priced(1500)]
    /\ now = 0
    /\ edits = 0
    /\ last = [op |-> "init"]
    /\ procs = [w \in Workers |-> [pc |-> "idle"]]

NextCanBook ==
    \/ Book
    \/ Tick

SpecCanBook == InitCanBook /\ [][NextCanBook]_vars

(* expires_at is nullable: can_book is applied to a quote instance whose   *)
(* expires_at is NULL.                                                     *)
InitNullExpiry ==
    /\ store \in {{[q EXCEPT !.expires_at = NoExpiry]} : q \in QuoteInstances}
    /\ countries = [n \in Names |-> IF n = "standard" THEN {"US", "GB"} ELSE {"US"}]
    /\ pricer = [n \in Names |-> IF n = "standard" THEN Priced(500) ELSE Priced(1500)]
    /\ now = 0
    /\ edits = 0
    /\ last = [op |-> "init"]
    /\ procs = [w \in Workers |-> [pc |-> "idle"]]

NextNullExpiry ==
    \/ Book
    \/ Tick

SpecNullExpiry == InitNullExpiry /\ [][NextNullExpiry]_vars

(* is_selected is an editable field of the abstract model: passes run on a *)
(* table that holds a valid quote selected by other means.                 *)
SelectedInstances ==
    {[q EXCEPT !.is_selected = "True"] :
        q \in {x \in QuoteInstances : x.is_valid
                   /\ \E c \in CountryPks, s \in SitePks :
                          x.key = generate_key([country |-> c], x.basket_id, s)}}

InitSelected ==
    /\ store \in {{q} : q \in SelectedInstances}
    /\ countries = [n \in Names |-> IF n = "standard" THEN {"US", "GB"} ELSE {"US"}]
    /\ pricer = [n \in Names |-> IF n = "standard" THEN Priced(500) ELSE Priced(1500)]
    /\ now = 0
    /\ edits = 0
    /\ last = [op |-> "init"]
    /\ procs = [w \in Workers |-> [pc |-> "idle"]]

NextSelected ==
    \/ Reconcile
    \/ Edit

SpecSelected == InitSelected /\ [][NextSelected]_vars

(* Two request workers run create_shipping_quotes at the same time.  Each  *)
(* ORM call is one step.  update_or_create (line 196) is Django's: inside  *)
(* a transaction it runs select_for_update().get(kwargs); a row it finds   *)
(* is locked, changed and saved before anyone else sees it; when it finds  *)
(* none, the INSERT is a second statement, and only a unique constraint on *)
(* the lookup columns would stop two workers from both inserting.          *)
BeginPass(w, destination, basket_id, site) ==
    /\ procs[w].pc = "idle"
    /\ destination.country # None
    /\ \E names \in shipping_rate_names(destination.country) :
           procs' = [procs EXCEPT ![w] =
                        [pc |-> "lookup", destination |-> destination,
                         basket_id |-> basket_id, site |-> site,
                         key |-> generate_key(destination, basket_id, site),
                         names |-> names, todo |-> names, quotes |-> <<>>,
                         status |-> "ok"]]
    /\ UNCHANGED <<store, countries, pricer, now, edits, last>>

(* lines 169-195 and the first half of line 196 for the next name; after   *)
(* the last name, lines 199-204                                            *)
LookupStep(w) ==
    LET p == procs[w]
        Done(st) == [p EXCEPT !.pc = "done", !.status = st]
    IN /\ p.pc = "lookup"
       /\ UNCHANGED <<countries, pricer, now, edits, last>>
       /\ IF p.todo = <<>>
          THEN LET a == auto_select(store, p.quotes)
               IN /\ store' = a.rows
                  /\ procs' = [procs EXCEPT ![w] = Done(a.status)]
          ELSE LET name == Head(p.todo)
                   got == try_get_shipping_cost(p.site, p.destination.country, name)
               IN IF got.status # "ok"
                  THEN store' = store /\ procs' = [procs EXCEPT ![w] = Done(got.status)]
                  ELSE IF "rate" \notin DOMAIN got.shipping_rate
                  THEN store' = store /\ procs' = [procs EXCEPT ![w] = Done("KeyError")]
                  ELSE LET details == [amount |-> got.shipping_rate["rate"],
                                       carrier |-> got.shipping_rate["carrier"],
                                       description |-> got.shipping_rate["description"],
                                       is_valid |-> got.valid]
                           lookups == [basket_id |-> p.basket_id, service |-> name,
                                       key |-> p.key]
                           matches == {r \in store : Details(r) = details}
                       IN IF matches = {}
                          THEN /\ store' = store
                               /\ procs' = [procs EXCEPT ![w].pc = "create"]
                          ELSE LET u == update_or_create(store, lookups, details, now)
                               IN /\ store' = u.rows
                                  /\ procs' = [procs EXCEPT ![w] =
                                         IF u.status # "ok" THEN Done(u.status)
                                         ELSE [p EXCEPT !.todo = Tail(p.todo),
                                                        !.quotes = Append(p.quotes, u.result)]]

(* the second half of line 196 when the lookup found no row: the INSERT *)
CreateStep(w) ==
    LET p == procs[w]
        name == Head(p.todo)
        out == get_shipping_cost(p.site, p.destination.country, name)
        obj == Row(uuid4(store),
                   [basket_id |-> p.basket_id, service |-> name, key |-> p.key],
                   [amount |-> out.rate, carrier |-> out.carrier,
                    description |-> out.description, is_valid |-> TRUE], now)
    IN /\ p.pc = "create"
       /\ UNCHANGED <<countries, pricer, now, edits, last>>
       /\ IF unique_together(store \cup {obj})
          THEN /\ store' = store \cup {obj}
               /\ procs' = [procs EXCEPT ![w] =
                      [p EXCEPT !.pc = "lookup", !.todo = Tail(p.todo),
                                !.quotes = Append(p.quotes, [items |-> <<obj, TRUE>>])]]
          ELSE /\ store' = store
               /\ procs' = [procs EXCEPT ![w] =
                      [p EXCEPT !.pc = "done", !.status = "IntegrityError"]]

Begin ==
    \E w \in Workers, d \in Destinations, b \in Baskets, s \in SitePks :
        BeginPass(w, d, b, s)

Lookup == \E w \in Workers : LookupStep(w)

Create == \E w \in Workers : CreateStep(w)

NextWorkers ==
    \/ Begin
    \/ Lookup
    \/ Create

SpecWorkers == Init /\ [][NextWorkers]_vars

(* Passes are aborted by database failures and run again. *)
Abort ==
    \E d \in Destinations, b \in Baskets, s \in SitePks :
        CreateShippingQuotesStoreFailure(d, b, s)

NextRetry ==
    \/ Reconcile
    \/ Abort
    \/ Edit

SpecRetry == Init /\ [][NextRetry]_vars

(* Keys are generated between the passes that store them. *)
NextKey ==
    \/ Reconcile
    \/ Key

SpecKey == Init /\ [][NextKey]_vars

----------------------------------------------------------------------------
(* Vocabulary of the properties *)

IsPass(l) == l.op = "create_shipping_quotes" /\ l.destination.country # None

Services(l) == {l.names[i] : i \in DOMAIN l.names}

(* the rows stored under the dedup key (basket_id, fingerprint, service) *)
RowsFor(rows, basket_id, key, service) ==
    {r \in rows : r.basket_id = basket_id /\ r.key = key /\ r.service = service}

AllPriced(l) == \A n \in Services(l) : pricer[n].tag = "ok"

(* the fields a pass is to write for a service, given the pricer's answer *)
Expected(name) ==
    IF pricer[name].tag = "ok"
    THEN [amount |-> pricer[name].rate, carrier |-> pricer[name].carrier,
          description |-> pricer[name].description, is_valid |-> TRUE]
    ELSE [amount |-> 0, carrier |-> "INVALID", description |-> "INVALID",
          is_valid |-> FALSE]

(* the quote objects a call returned *)
Returned(l) == {l.quotes[i].items[1] : i \in DOMAIN l.quotes}

QuoteTuples(l) ==
    {<<q.service, q.amount, q.carrier, q.is_valid>> : q \in Returned(l)}

Selected(rows) == {r \in rows : r.is_selected = "True"}

----------------------------------------------------------------------------
(* C1: a reconcile pass that repeats the previous pass (same destination,  *)
(* basket and tenant, no rate change in between) returns the same set of   *)
(* (service, amount, carrier, is_valid) tuples and leaves exactly one      *)
(* stored quote per applicable service under (basket_id, fingerprint).     *)
(* Stated for the passes in which the pricer prices every service.         *)
C1_IdempotentReconciliation ==
    [][(/\ IsPass(last) /\ IsPass(last')
        /\ AllPriced(last')
        /\ last'.destination = last.destination
        /\ last'.basket_id = last.basket_id
        /\ last'.site = last.site)
       => /\ QuoteTuples(last') = QuoteTuples(last)
          /\ \A n \in Services(last') :
                 Cardinality(RowsFor(store', last'.basket_id, last'.key, n)) = 1]_vars

(* C2: a pass overwrites the row that exists under (basket_id,             *)
(* fingerprint, service) with the pricer's current result and keeps its    *)
(* id, so the key still has exactly one row; it inserts a row only under a *)
(* key that had none.  Stated for the passes in which the pricer prices    *)
(* every service.                                                          *)
C2_UpsertByKey ==
    [][(IsPass(last') /\ AllPriced(last'))
       => /\ \A n \in Services(last') :
                 \A r \in RowsFor(store, last'.basket_id, last'.key, n) :
                     \E r2 \in store' :
                         /\ RowsFor(store', last'.basket_id, last'.key, n) = {r2}
                         /\ r2.id = r.id
                         /\ Details(r2) = Expected(n)
          /\ \A r2 \in store' :
                 (\A r \in store : r.id # r2.id)
                     => RowsFor(store, r2.basket_id, r2.key, r2.service) = {}]_vars

(* C3: a pass in which the pricer fails for a service does not raise; it   *)
(* returns and stores one quote per service: the sentinel (amount 0,       *)
(* carrier and description "INVALID", not valid) for a failed service, the *)
(* priced, valid quote for every other.                                    *)
C3_PartialFailureIsolation ==
    (IsPass(last) /\ \E n \in Services(last) : pricer[n].tag # "ok")
        => /\ last.status = "ok"
           /\ \A n \in Services(last) :
                  /\ \E q \in Returned(last) :
                         q.service = n /\ Details(q) = Expected(n)
                  /\ \E r \in RowsFor(store, last.basket_id, last.key, n) :
                         Details(r) = Expected(n)

(* C4: after a pass over exactly one service the quote of that service is  *)
(* stored with is_selected true; a pass over no service or over two or     *)
(* more selects no quote that was not selected before.                     *)
C4_AutoSelection ==
    [][IsPass(last')
       => IF Len(last'.names) = 1
          THEN \E r \in RowsFor(store', last'.basket_id, last'.key, last'.names[1]) :
                   r.is_selected = "True"
          ELSE \A r2 \in Selected(store') :
                   \E r \in Selected(store) : r.id = r2.id]_vars

C7_SelectionExclusivity ==
    (/\ last.op = "select_shipping_quote"
     /\ \E r \in store : /\ r.id = last.quote_id
                           /\ r.basket_id = last.basket_id
                           /\ r.key = last.key)
        => /\ last.status = "ok"
           /\ \A r \in store :
                  (r.basket_id = last.basket_id /\ r.key = last.key)
                      => (r.is_selected = "True" <=> r.id = last.quote_id)

(* C8: can_book answers true exactly when the quote is valid, the current  *)
(* time is strictly before its expires_at and its key equals the key       *)
(* generated afresh from the given destination country and tenant.         *)
C8_CanBook ==
    (last.op = "can_book" /\ last.destination.country # None)
        => /\ last.status = "ok"
           /\ last.result
                  <=> /\ last.quote.is_valid
                      /\ last.at < last.quote.expires_at
                      /\ last.quote.key
                             = generate_key(last.destination, last.basket_id, last.site)

(* a valid quote with a matching key was refused at or after its expiry *)
C8_Witness ==
    /\ last.op = "can_book" /\ last.destination.country # None
    /\ last.quote.is_valid
    /\ last.quote.key = generate_key(last.destination, last.basket_id, last.site)
    /\ last.at >= last.quote.expires_at
    /\ ~last.result

(* C9: can_book answers false for a quote that a pass created for country  *)
(* c1 when it is asked with a destination of another country c2 and the    *)
(* same tenant.                                                            *)
C9_FingerprintGuard ==
    (/\ last.op = "can_book" /\ last.destination.country # None
     /\ \E c1 \in CountryPks :
            /\ c1 # last.destination.country
            /\ last.quote.key = generate_key([country |-> c1], last.basket_id, last.site))
        => (last.status = "ok" /\ ~last.result)

(* a valid, unexpired quote of a pass for one country was refused for the  *)
(* other country                                                           *)
C9_Witness ==
    /\ last.op = "can_book" /\ last.destination.country # None
    /\ last.quote \in store
    /\ last.quote.is_valid /\ last.at < last.quote.expires_at
    /\ \E c1 \in CountryPks :
           /\ c1 # last.destination.country
           /\ last.quote.key = generate_key([country |-> c1], last.basket_id, last.site)
    /\ ~last.result

(* C10: two consecutive computations of the key (by generate_key or inside *)
(* a pass) for the same country and tenant give the same key, whatever the *)
(* baskets and whatever the pass stored in between.                        *)
HasKey(l) ==
    l.op \in {"create_shipping_quotes", "generate_key"} /\ l.destination.country # None

C10_KeyOfCountryAndTenant ==
    [][(/\ HasKey(last) /\ HasKey(last')
        /\ last'.destination.country = last.destination.country
        /\ last'.site = last.site)
       => last'.key = last.key]_vars

(* generate_key returned, for one basket, the key under which a quote of   *)
(* the other basket is stored                                              *)
C10_Witness ==
    /\ last.op = "generate_key" /\ last.status = "ok"
    /\ \E r \in store : r.key = last.key /\ r.basket_id # last.basket_id

(* C11: every quote a pass wrote, inserted or updated in place, expires    *)
(* after the time of the pass, so that a purge of the quotes with          *)
(* expires_at <= now leaves it.                                            *)
C11_UpsertRefreshesExpiry ==
    [][IsPass(last')
       => \A q \in Returned(last') :
              \E r \in store' : r.id = q.id /\ r.expires_at > now']_vars

(* C12: when two passes for the same basket and fingerprint have run at    *)
(* the same time, whatever the interleaving, each service of the pass has  *)
(* exactly one row under (basket_id, fingerprint, service).                *)
C12_ConcurrentReconciliation ==
    \A w1 \in Workers : \A w2 \in Workers :
        (/\ w1 # w2
         /\ procs[w1].pc = "done" /\ procs[w2].pc = "done"
         /\ procs[w1].basket_id = procs[w2].basket_id
         /\ procs[w1].key = procs[w2].key)
            => \A i \in DOMAIN procs[w1].names :
                   Cardinality(RowsFor(store, procs[w1].basket_id, procs[w1].key,
                                       procs[w1].names[i])) = 1

(* C13: when a pass was aborted by a database failure after one or more   *)
(* of its upserts, the same pass run again right after leaves, under       *)
(* (basket_id, fingerprint), one row per service, and the rows (ids aside) *)
(* that the pass leaves when it runs without failure from the state before *)
(* the aborted pass.  Stated for the passes in which the pricer prices     *)
(* every service.                                                          *)
GroupRows(rows, basket_id, key) ==
    {[r EXCEPT !.id = 0] : r \in {x \in rows : x.basket_id = basket_id /\ x.key = key}}

C13_RetryAfterStoreFailure ==
    [][(/\ IsPass(last) /\ last.status = "OperationalError" /\ last.upserts >= 1
        /\ IsPass(last') /\ last'.status # "OperationalError"
        /\ AllPriced(last')
        /\ last'.destination = last.destination
        /\ last'.basket_id = last.basket_id
        /\ last'.site = last.site)
       => /\ \A n \in Services(last') :
                 Cardinality(RowsFor(store', last'.basket_id, last'.key, n)) = 1
          /\ GroupRows(store', last'.basket_id, last'.key)
                 = GroupRows(create_shipping_quotes(last.before, last'.destination,
                                 last'.basket_id, last'.site, last'.names, now).rows,
                             last'.basket_id, last'.key)]_vars

(* C14: a pass for a country that no shipping rate lists returns the      *)
(* empty sequence, raises nothing, selects nothing and leaves the table as *)
(* it was.                                                                 *)
C14_EmptyResolverResult ==
    [][(IsPass(last') /\ last'.names = <<>>)
       => /\ last'.status = "ok"
          /\ last'.quotes = <<>>
          /\ store' = store]_vars

(* a pass has just run for a country that no rate lists, on a table that   *)
(* holds quotes of the same basket                                         *)
C14_Witness ==
    /\ IsPass(last) /\ last.names = <<>> /\ last.status = "ok"
    /\ \E r \in store : r.basket_id = last.basket_id

(* C15: create_shipping_quotes called with an address that has no country *)
(* raises to the caller before a rate name is read or priced and before a  *)
(* quote is written: the table is as it was.                               *)
C15_InvalidDestination ==
    [][(last'.op = "create_shipping_quotes" /\ last'.destination.country = None)
       => /\ last'.status # "ok"
          /\ last'.names = <<>>
          /\ last'.quotes = <<>>
          /\ store' = store]_vars

(* the call has just been made with an address without a country for a     *)
(* basket that holds quotes                                                *)
C15_Witness ==
    /\ last.op = "create_shipping_quotes" /\ last.destination.country = None
    /\ last.status = "AttributeError"
    /\ \E r \in store : r.basket_id = last.basket_id

(* C16: a pass over no rate name or over two or more changes is_selected  *)
(* of no stored quote, also of the quotes it updates in place, and the     *)
(* quotes it creates are not selected.                                     *)
C16_SelectionUntouched ==
    [][(IsPass(last') /\ Len(last'.names) # 1)
       => /\ \A r \in store :
                 \E r2 \in store' : r2.id = r.id /\ r2.is_selected = r.is_selected
          /\ \A r2 \in store' :
                 (\A r \in store : r.id # r2.id) => r2.is_selected = None]_vars

(* a pass over two rate names has just updated a selected quote in place   *)
(* and created another                                                     *)
C16_Witness ==
    /\ IsPass(last) /\ Len(last.names) = 2 /\ last.status = "ok"
    /\ \E i \in DOMAIN last.quotes :
           /\ last.quotes[i].items[2] = FALSE
           /\ last.quotes[i].items[1].is_selected = "True"
           /\ last.quotes[i].items[1] \in store
    /\ \E i \in DOMAIN last.quotes : last.quotes[i].items[2] = TRUE

(* C17: a pass that returns, returns one Quote per rate name of the        *)
(* country, in sorted order of the service names.                          *)
ServiceOrder == <<"express", "standard">>

InOrder(n) == n \in Services(last)

SortedServices == SelectSeq(ServiceOrder, InOrder)

QuoteOf(x) == IF IsTuple(x) THEN x.items[1] ELSE x

C17_ResultSequence ==
    (IsPass(last) /\ last.status = "ok")
        => /\ Len(last.quotes) = Len(last.names)
           /\ \A i \in DOMAIN last.quotes :
                  /\ ~IsTuple(last.quotes[i])
                  /\ QuoteOf(last.quotes[i]).service = SortedServices[i]

(* C18: a pass for a basket leaves the quotes of the other baskets as they *)
(* were (none created, changed, re-keyed or removed), and no stored quote  *)
(* changes its basket_id, key or service.                                  *)
OtherBaskets(rows, basket_id) == {r \in rows : r.basket_id # basket_id}

C18_OwnBasketOnly ==
    [][IsPass(last')
       => /\ OtherBaskets(store', last'.basket_id) = OtherBaskets(store, last'.basket_id)
          /\ \A r \in store : \A r2 \in store' :
                 r.id = r2.id => /\ r2.basket_id = r.basket_id
                                 /\ r2.key = r.key
                                 /\ r2.service = r.service]_vars

(* C19: a pass over exactly one rate name, all priced, completes (no       *)
(* IntegrityError from unique_together, no other exception) and leaves the *)
(* quote it returns stored with is_selected true, also when another quote  *)
(* of the same (basket_id, key) is selected when the pass starts.          *)
C19_AutoSelectionNeverConflicts ==
    [][(IsPass(last') /\ Len(last'.names) = 1 /\ AllPriced(last'))
       => /\ last'.status # "IntegrityError"
          /\ last'.status = "ok"
          /\ Len(last'.quotes) = 1
          /\ \E r \in store' : /\ r.id = QuoteOf(last'.quotes[1]).id
                               /\ r.is_selected = "True"]_vars

(* C20: can_book on a quote whose expires_at is NULL answers with a        *)
(* boolean: true exactly when the quote is valid and its key equals the    *)
(* key generated afresh from the given destination country and tenant.     *)
C20_CanBookWithoutExpiry ==
    (/\ last.op = "can_book"
     /\ last.quote.expires_at = NoExpiry
     /\ last.destination.country # None)
        => /\ last.status = "ok"
           /\ last.result <=> (/\ last.quote.is_valid
                               /\ last.quote.key = generate_key(last.destination,
                                                                last.basket_id, last.site))

====
